---- MODULE Spec2Model ----
(***************************************************************************)
(* Model of tg-stickerize (src/src/main.rs): the handle_file message       *)
(* handler, process_image, process_webm and the tokio runtime that runs    *)
(* the handlers.                                                           *)
(***************************************************************************)
EXTENDS Integers, Sequences, FiniteSets, TLC

(***************************************************************************)
(* f32 arithmetic.  A finite non-negative f32 is <<m, e>> with value       *)
(* m * 2^e and 2^23 <= m < 2^24, or <<0, 0>> for zero.  Every operation    *)
(* rounds to nearest, ties to even, as IEEE-754 binary32 does.             *)
(***************************************************************************)
MantBits == 24

RECURSIVE BitLen(_)
BitLen(n) == IF n = 0 THEN 0 ELSE 1 + BitLen(n \div 2)

\* q with the bits below it (rem, compared with half) rounded to nearest even
RoundEven(q, rem, half) ==
    IF rem > half \/ (rem = half /\ q % 2 = 1) THEN q + 1 ELSE q

\* <<m, e>> renormalised after a rounding carry out of the mantissa
Normalize(m, e) == IF m = 2^MantBits THEN <<2^(MantBits - 1), e + 1>> ELSE <<m, e>>

\* `n as f32` for an unsigned integer n
AsF32(n) ==
    LET bl == BitLen(n)
        d  == bl - MantBits
    IN IF n = 0 THEN <<0, 0>>
       ELSE IF d <= 0 THEN <<n * 2^(-d), d>>
       ELSE Normalize(RoundEven(n \div 2^d, n % 2^d, 2^(d - 1)), d)

\* long division: k more quotient bits of (q + r/m), r < m
RECURSIVE DivBits(_, _, _, _)
DivBits(q, r, m, k) ==
    IF k = 0 THEN <<q, r>>
    ELSE LET bit == IF 2 * r >= m THEN 1 ELSE 0
         IN DivBits(2 * q + bit, 2 * r - bit * m, m, k - 1)

\* `512.0 / x` for a positive f32 x:  512 / (m 2^e) = (2^47 / m) 2^(-38-e)
F32Div512(x) ==
    LET m  == x[1]
        e  == x[2]
        qr == DivBits(1, 2^MantBits - m, m, MantBits - 1)
    IN IF m = 2^(MantBits - 1) THEN <<m, -14 - e - (MantBits - 1)>>
       ELSE Normalize(RoundEven(qr[1], 2 * qr[2], m), -38 - e)

\* `a * b` for non-negative f32 a, b; the 48-bit product is kept in 12-bit limbs
F32Mul(a, b) ==
    LET a1 == a[1] \div 4096
        a0 == a[1] % 4096
        b1 == b[1] \div 4096
        b0 == b[1] % 4096
        d0 == (a0 * b0) % 4096
        c1 == (a0 * b0) \div 4096 + a1 * b0 + a0 * b1
        d1 == c1 % 4096
        c2 == c1 \div 4096 + a1 * b1
        low == d1 * 4096 + d0
        e  == a[2] + b[2]
    IN IF a[1] = 0 \/ b[1] = 0 THEN <<0, 0>>
       ELSE IF c2 >= 2^(MantBits - 1)
            THEN Normalize(RoundEven(c2, low, 2^23), e + 24)
            ELSE Normalize(RoundEven(2 * c2 + low \div 2^23, low % 2^23, 2^22), e + 23)

\* `x.round() as u32` for a non-negative f32 x: halves round away from zero
RoundAsU32(x) ==
    LET m == x[1]
        t == -x[2]
    IN IF m = 0 THEN 0
       ELSE IF t <= 0 THEN m * 2^(-t)
       ELSE IF t > MantBits + 1 THEN 0
       ELSE (m + 2^(t - 1)) \div 2^t

\* (short as f32 * (512.0 / long as f32)).round() as u32.  long = 0 makes the
\* ratio infinite and the product 0 * inf = NaN, which casts to 0.
ScaleRound(short, long) ==
    IF long = 0 THEN 0
    ELSE RoundAsU32(F32Mul(AsF32(short), F32Div512(AsF32(long))))

\* (new_width, new_height) of process_image and of process_webm
TargetSize(width, height) ==
    IF width >= height
    THEN <<512, ScaleRound(height, width)>>
    ELSE <<ScaleRound(width, height), 512>>

(***************************************************************************)
(* Bounds of the model.                                                    *)
(***************************************************************************)
\* widths and heights 1..MaxDim are enumerated next to the named sizes below
MaxDim == 3
\* conversions (handle_file invocations) in flight
NumConvs == 3
\* worker threads of the tokio runtime (one per CPU core by default)
NumWorkers == 2

Convs == 1..NumConvs

ImageCap == 512 * 1024
VideoCap == 256 * 1024

\* sizes an image decoder can report: both dimensions at least 1
ImageDims == (1..MaxDim) \cup {41, 287, 300, 512, 600, 1080, 1920, 2000, 41984}
\* sizes the probe's JSON can carry: any unsigned integer, zero included (the
\* values stay below 2^32, where `as u64 as u32` leaves them unchanged)
ProbeDims == {0} \cup ImageDims
\* sizes of the produced file, around both caps
Sizes == {0, 1000, VideoCap, VideoCap + 1, ImageCap, ImageCap + 1}

(***************************************************************************)
(* The frame rate and the duration.  A rate is the rational <<num, den>>   *)
(* with den > 0, a duration is a number of milliseconds.  For the values   *)
(* of the model (|num|, den < 2^19) the f32 quotient num/den is within     *)
(* 2^-20 of the rational, so comparing with 30.0 and rounding give the     *)
(* same target as on the rational.                                         *)
(***************************************************************************)
Rat(num, den) == IF den < 0 THEN <<-num, -den>> ELSE <<num, den>>

RoundHalfAway(num, den) ==
    IF num >= 0 THEN (2 * num + den) \div (2 * den)
    ELSE -((-2 * num + den) \div (2 * den))

\* `x as u32` of a float that is already integral: negative values saturate to 0
SatU32(i) == IF i < 0 THEN 0 ELSE i

\* let target_fps = if fps > 30.0 { 30 } else { fps.round() as u32 };
TargetFps(fps) ==
    IF fps[1] > 30 * fps[2] THEN 30 ELSE SatU32(RoundHalfAway(fps[1], fps[2]))

\* let target_duration = if duration > 3.0 { 3.0 } else { duration };
TargetDuration(duration) == IF duration > 3000 THEN 3000 ELSE duration

(***************************************************************************)
(* What ffprobe can hand back: exit status, stdout, and in the JSON the    *)
(* fields process_webm reads.                                              *)
(***************************************************************************)
\* r_frame_rate strings: "N/D", a plain number, no string at all, garbage
Rates ==
    {[tag |-> "frac", num |-> 60000, den |-> 1001],
     [tag |-> "frac", num |-> 30, den |-> 1],
     [tag |-> "frac", num |-> 61, den |-> 2],
     [tag |-> "frac", num |-> 5, den |-> 2],
     [tag |-> "frac", num |-> 0, den |-> 1],
     [tag |-> "frac", num |-> -5, den |-> 1],
     [tag |-> "plain", num |-> 2997, den |-> 100],
     [tag |-> "plain", num |-> 24, den |-> 1]}
BadRates ==
    {[tag |-> "frac", num |-> 0, den |-> 0],
     [tag |-> "missing", num |-> 0, den |-> 1],
     [tag |-> "invalid", num |-> 0, den |-> 1]}

\* format.duration strings, in milliseconds
Durations ==
    {[tag |-> "num", ms |-> d] : d \in {5200, 3001, 3000, 1500, 0, -1000}}
\* "nokey": the format object has no duration key; "missing": the value is
\* not a string; "invalid": the string does not parse as f32
BadDurations ==
    {[tag |-> "nokey", ms |-> 0], [tag |-> "missing", ms |-> 0],
     [tag |-> "invalid", ms |-> 0]}

GoodProbe(w, h, r, d) ==
    [success |-> TRUE, json |-> TRUE, streams |-> "some",
     hasWidth |-> TRUE, width |-> w, hasHeight |-> TRUE, height |-> h,
     hasFormat |-> TRUE, duration |-> d, rate |-> r]

BaseRate == [tag |-> "frac", num |-> 60000, den |-> 1001]
BaseDuration == [tag |-> "num", ms |-> 5200]
BaseProbe == GoodProbe(1920, 1080, BaseRate, BaseDuration)

ProbeOutputs ==
    {GoodProbe(w, h, BaseRate, BaseDuration) : w \in ProbeDims, h \in ProbeDims}
    \cup {GoodProbe(1920, 1080, r, d) : r \in Rates \cup BadRates,
                                        d \in Durations \cup BadDurations}
    \cup {[BaseProbe EXCEPT !.success = FALSE],
          [BaseProbe EXCEPT !.json = FALSE],
          [BaseProbe EXCEPT !.streams = "missing"],
          [BaseProbe EXCEPT !.streams = "empty"],
          [BaseProbe EXCEPT !.hasWidth = FALSE],
          [BaseProbe EXCEPT !.hasHeight = FALSE],
          [BaseProbe EXCEPT !.hasFormat = FALSE]}

\* lines 87-128: the first check of process_webm that ffprobe's stdout fails,
\* or "none".  format["duration"] indexes a serde_json Map, which panics on a
\* missing key.
ParseProbe(out) ==
    IF ~out.json THEN "JsonError"
    ELSE IF out.streams = "missing" THEN "NoStreamsInfo"
    ELSE IF out.streams = "empty" THEN "NoVideoStream"
    ELSE IF ~out.hasWidth THEN "NoWidth"
    ELSE IF ~out.hasHeight THEN "NoHeight"
    ELSE IF ~out.hasFormat THEN "NoFormat"
    ELSE IF out.duration.tag = "nokey" THEN "Panic"
    ELSE IF out.duration.tag = "missing" THEN "NoDuration"
    ELSE IF out.duration.tag = "invalid" THEN "DurationParseError"
    ELSE IF out.rate.tag = "missing" THEN "NoFrameRate"
    ELSE IF out.rate.tag = "invalid" THEN "FrameRateParseError"
    ELSE IF out.rate.tag = "frac" /\ out.rate.den = 0 THEN "ZeroDenominator"
    ELSE "none"

\* a process_webm that reads stdout without looking at the exit status
ProbeErrorIgnoringStatus(out) == ParseProbe(out)

\* lines 82-128: if !output.status.success() { return Err(...) }, then the parse
ProbeError(out) ==
    IF ~out.success THEN "FFprobeFailed" ELSE ParseProbe(out)

(***************************************************************************)
(* State: one record per conversion (one handle_file invocation).          *)
(***************************************************************************)
VARIABLES conv

vars == <<conv>>

\* the shapes of message handle_file tells apart
MsgKinds ==
    {"photo", "doc_image", "doc_video", "doc_octet", "doc_nomime", "doc_other",
     "sticker", "anim_video", "anim_nomime", "anim_other", "text"}

\* the message carries a file id that handle_file goes on to download
HasFileId(m) == m \notin {"doc_other", "anim_other", "text"}

\* what infer::get_from_path finds in the downloaded bytes
Detections == {"image", "video", "other", "none"}

\* a dispatch that treats everything that is not an image as a video
BranchVideoByDefault(is_image, is_video) ==
    IF is_image THEN "Image" ELSE "Video"

\* the branch handle_file takes on (is_image, is_video)
Branch(is_image, is_video) ==
    IF is_image THEN "Image" ELSE IF is_video THEN "Video" ELSE "Unknown"

\* a size check that also rejects a file of exactly the cap
ImageSizeBelowCap(file_size) == file_size < ImageCap

\* if file_size > 512 * 1024 { return Err(...) }
ImageSizeOk(file_size) == ~(file_size > ImageCap)

\* if file_size > 256 * 1024 { return Err(...) }
VideoSizeOk(file_size) == ~(file_size > VideoCap)

\* an output file that is persisted whatever the result
OutputAlwaysKept(outcome) == TRUE

\* .map(|_| (output_temp, output_path)): the output file's guard survives
\* process_image / process_webm only inside an Ok result
OutputKept(outcome) == outcome = "Ok"

InitConv ==
    [pc |-> "start", detected |-> "none", branch |-> "none", outcome |-> "none",
     width |-> 0, height |-> 0, new_width |-> 0, new_height |-> 0,
     fps |-> <<0, 1>>, duration |-> 0, target_fps |-> 0, target_duration |-> 0,
     file_size |-> 0, input_temp |-> FALSE, output_temp |-> FALSE,
     hung |-> FALSE, probe_calls |-> 0, image_calls |-> 0, resize_calls |-> 0,
     encode_calls |-> 0, size_checks |-> 0, stickers |-> 0, reports |-> 0,
     probe_exits |-> 0, probe_out |-> BaseProbe, encode_status |-> "none",
     ret |-> "none", stages |-> <<>>]

Init == conv = [c \in Convs |-> InitConv]

\* the handler is inside the synchronous stretch between the await of the
\* download and the await of the reply, so it occupies a worker thread;
\* Command::output() and Command::status() block that thread
OnWorker(c) ==
    conv[c].pc \in {"create_output", "process_image", "probe", "probing", "encoding"}

\* a task is polled only by a worker thread that is not occupied
CanRun(c) ==
    /\ ~conv[c].hung
    /\ \/ OnWorker(c)
       \/ Cardinality({d \in Convs : OnWorker(d)}) < NumWorkers

Set(c, r) == conv' = [conv EXCEPT ![c] = r]

\* handle_file returns (`?`, return, or unwinding): its guards are dropped
Return(r, ret) ==
    [r EXCEPT !.pc = "done", !.ret = ret, !.input_temp = FALSE,
              !.output_temp = FALSE]

\* process_image / process_webm return `outcome` to handle_file
Processed(r, outcome) ==
    [r EXCEPT !.pc = "respond", !.outcome = outcome,
              !.output_temp = OutputKept(outcome)]

(***************************************************************************)
(* handle_file, one action per stretch between two suspension points.      *)
(***************************************************************************)
\* lines 192-253: pick the file id out of the message, or reply and return
Receive(c) ==
    /\ conv[c].pc = "start"
    /\ CanRun(c)
    /\ \E m \in MsgKinds :
         IF HasFileId(m)
         THEN Set(c, [conv[c] EXCEPT !.pc = "get_file"])
         ELSE \E sent \in BOOLEAN :
                Set(c, Return([conv[c] EXCEPT !.reports = @ + 1],
                              IF sent THEN "Ok" ELSE "Err"))

\* line 256: bot.get_file(&file_id).await?
GetFile(c) ==
    /\ conv[c].pc = "get_file"
    /\ CanRun(c)
    /\ \E ok \in BOOLEAN :
         Set(c, IF ok THEN [conv[c] EXCEPT !.pc = "create_input"]
                ELSE Return(conv[c], "Err"))

\* line 259: NamedTempFile::new().context(...)?
CreateInput(c) ==
    /\ conv[c].pc = "create_input"
    /\ CanRun(c)
    /\ \E ok \in BOOLEAN :
         Set(c, IF ok THEN [conv[c] EXCEPT !.pc = "download", !.input_temp = TRUE]
                ELSE Return(conv[c], "Err"))

\* line 268: reqwest::get(&file_url).await?.bytes().await?
Download(c) ==
    /\ conv[c].pc = "download"
    /\ CanRun(c)
    /\ \E ok \in BOOLEAN :
         Set(c, IF ok THEN [conv[c] EXCEPT !.pc = "write"]
                ELSE Return(conv[c], "Err"))

\* lines 269-271: tokio_fs::write(&input_file_path, &bytes).await?
WriteInput(c) ==
    /\ conv[c].pc = "write"
    /\ CanRun(c)
    /\ \E ok \in BOOLEAN :
         Set(c, IF ok THEN [conv[c] EXCEPT !.pc = "classify"]
                ELSE Return(conv[c], "Err"))

\* lines 274-288, 324-329: infer the type from the bytes and pick the branch
Classify(c) ==
    /\ conv[c].pc = "classify"
    /\ CanRun(c)
    /\ \/ Set(c, Return(conv[c], "Err"))
       \/ \E d \in Detections :
            LET b == Branch(d = "image", d = "video")
                r == [conv[c] EXCEPT !.detected = d, !.branch = b,
                                     !.stages = Append(@, "Classify")]
            IN Set(c, IF b = "Unknown"
                      THEN [r EXCEPT !.pc = "respond",
                                     !.outcome = "UnsupportedType",
                                     !.stages = Append(@, "UnsupportedType")]
                      ELSE [r EXCEPT !.pc = "create_output"])

\* lines 289-293, 307-311: Builder::new().suffix(..).tempfile().context(..)?
CreateOutput(c) ==
    /\ conv[c].pc = "create_output"
    /\ CanRun(c)
    /\ \E ok \in BOOLEAN :
         Set(c, IF ok
                THEN [conv[c] EXCEPT !.output_temp = TRUE,
                        !.pc = IF conv[c].branch = "Image" THEN "process_image"
                               ELSE "probe"]
                ELSE Return(conv[c], "Err"))

\* lines 26-61, 302-305: process_image, which never suspends
ProcessImage(c, images, sizes) ==
    /\ conv[c].pc = "process_image"
    /\ CanRun(c)
    /\ LET r == [conv[c] EXCEPT !.image_calls = @ + 1,
                                !.stages = Append(@, "ImageTranscode")]
       IN \/ Set(c, Processed(r, "DecodeError"))
          \/ \E dims \in images :
               LET t == TargetSize(dims[1], dims[2])
                   resized == [r EXCEPT !.width = dims[1], !.height = dims[2],
                                        !.new_width = t[1], !.new_height = t[2],
                                        !.resize_calls = @ + 1]
               IN \/ Set(c, Processed(resized, "EncodeError"))
                  \/ Set(c, Processed(resized, "IOError"))
                  \/ \E file_size \in sizes :
                       Set(c, Processed([resized EXCEPT !.file_size = file_size,
                                                        !.size_checks = @ + 1],
                                        IF ImageSizeOk(file_size) THEN "Ok"
                                        ELSE "TooLarge"))

\* lines 65-80: spawn ffprobe and block on it
StartProbe(c) ==
    /\ conv[c].pc = "probe"
    /\ CanRun(c)
    /\ LET r == [conv[c] EXCEPT !.probe_calls = @ + 1,
                                !.stages = Append(@, "Probe")]
       IN \/ Set(c, [r EXCEPT !.pc = "probing"])
          \/ Set(c, Processed(r, "IOError"))

\* ffprobe never exits: Command::output() never returns
ProbeHang(c) ==
    /\ conv[c].pc = "probing"
    /\ ~conv[c].hung
    /\ Set(c, [conv[c] EXCEPT !.hung = TRUE])

\* lines 80-171: ffprobe exits; parse its output, derive the targets, spawn
\* ffmpeg and block on it
ProbeExit(c, probes) ==
    /\ conv[c].pc = "probing"
    /\ CanRun(c)
    /\ \E out \in probes :
         LET err == ProbeError(out)
             fps == Rat(out.rate.num, out.rate.den)
             t == TargetSize(out.width, out.height)
             exited == [conv[c] EXCEPT !.probe_exits = @ + 1, !.probe_out = out]
             derived == [exited EXCEPT
                           !.width = out.width, !.height = out.height,
                           !.fps = fps, !.duration = out.duration.ms,
                           !.new_width = t[1], !.new_height = t[2],
                           !.target_fps = TargetFps(fps),
                           !.target_duration = TargetDuration(out.duration.ms),
                           !.encode_calls = @ + 1,
                           !.stages = Append(@, "VideoTranscode")]
         IN IF err = "Panic" THEN Set(c, Return(exited, "Panic"))
            ELSE IF err # "none" THEN Set(c, Processed(exited, err))
            ELSE \/ Set(c, [derived EXCEPT !.pc = "encoding"])
                 \/ Set(c, Processed(derived, "IOError"))

\* ffmpeg never exits: Command::status() never returns
EncodeHang(c) ==
    /\ conv[c].pc = "encoding"
    /\ ~conv[c].hung
    /\ Set(c, [conv[c] EXCEPT !.hung = TRUE])

\* lines 171-186, 320-323: ffmpeg exits; check the status, then the size
EncodeExit(c, sizes) ==
    /\ conv[c].pc = "encoding"
    /\ CanRun(c)
    /\ \/ Set(c, Processed([conv[c] EXCEPT !.encode_status = "failure"],
                          "FFmpegFailed"))
       \/ LET r == [conv[c] EXCEPT !.encode_status = "success"]
          IN \/ Set(c, Processed(r, "IOError"))
             \/ \E file_size \in sizes :
                  Set(c, Processed([r EXCEPT !.file_size = file_size,
                                             !.size_checks = @ + 1],
                                   IF VideoSizeOk(file_size) THEN "Ok"
                                   ELSE "TooLarge"))

\* lines 332-363: send the sticker or the failure message, then return
Respond(c) ==
    /\ conv[c].pc = "respond"
    /\ CanRun(c)
    /\ \E sent \in BOOLEAN :
         LET r == IF conv[c].outcome = "Ok"
                  THEN [conv[c] EXCEPT !.stickers = @ + 1]
                  ELSE [conv[c] EXCEPT !.reports = @ + 1]
         IN Set(c, [r EXCEPT !.pc = "done",
                             !.ret = IF sent THEN "Ok" ELSE "Err",
                             !.input_temp = FALSE,
                             !.output_temp = IF r.outcome = "Ok" THEN FALSE ELSE @])

Step(c, images, probes, sizes) ==
    \/ Receive(c)
    \/ GetFile(c)
    \/ CreateInput(c)
    \/ Download(c)
    \/ WriteInput(c)
    \/ Classify(c)
    \/ CreateOutput(c)
    \/ ProcessImage(c, images, sizes)
    \/ StartProbe(c)
    \/ ProbeHang(c)
    \/ ProbeExit(c, probes)
    \/ EncodeHang(c)
    \/ EncodeExit(c, sizes)
    \/ Respond(c)

\* one conversion over the whole input domain
Next == Step(1, ImageDims \X ImageDims, ProbeOutputs, Sizes)

Spec == Init /\ [][Next]_vars

\* NumConvs conversions in flight on NumWorkers worker threads
ConcNext ==
    \E c \in Convs : Step(c, {<<1920, 1080>>}, {BaseProbe}, {VideoCap, ImageCap + 1})

ConcSpec == Init /\ [][ConcNext]_vars

(***************************************************************************)
(* Properties.                                                             *)
(***************************************************************************)
Max(a, b) == IF a >= b THEN a ELSE b
Min(a, b) == IF a <= b THEN a ELSE b

\* the resize (image) or the encode tool (video) was invoked with new_width
\* and new_height derived from width and height
Derived(r) == r.resize_calls > 0 \/ r.encode_calls > 0

\* classification of the downloaded bytes has happened
Classified(r) == r.stages # <<>>

\* round(short * 512 / long) on the rationals, halves away from zero
ExactScale(short, long) == (2 * 512 * short + long) \div (2 * long)

\* C1: for every width > 0 and height > 0, on the image and on the video path,
\* the larger target side is 512, it is the side of the larger original side
\* (the width when width >= height), and the other side is
\* round(min * 512 / max) with halves rounded away from zero.
C1_TargetIsExactlyScaled ==
    \A c \in Convs :
      LET r == conv[c]
      IN (Derived(r) /\ r.width > 0 /\ r.height > 0) =>
           /\ Max(r.new_width, r.new_height) = 512
           /\ IF r.width >= r.height
              THEN /\ r.new_width = 512
                   /\ r.new_height = ExactScale(r.height, r.width)
              ELSE /\ r.new_height = 512
                   /\ r.new_width = ExactScale(r.width, r.height)

Cap(r) == IF r.branch = "Image" THEN ImageCap ELSE VideoCap

C3_UnknownIsUnsupported ==
    \A c \in Convs :
      LET r == conv[c]
      IN (Classified(r) /\ r.detected \notin {"image", "video"}) =>
           /\ r.outcome = "UnsupportedType"
           /\ r.probe_calls = 0 /\ r.image_calls = 0 /\ r.resize_calls = 0
           /\ r.encode_calls = 0
           /\ r.stickers = 0
           /\ r.pc = "done" => r.reports = 1

\* bytes that infer does not recognise were reported as unsupported
C3_Witness ==
    \E c \in Convs :
      /\ conv[c].pc = "done" /\ Classified(conv[c])
      /\ conv[c].detected = "none" /\ conv[c].reports = 1

\* the probe failures the claim lists, read off the raw ffprobe result
ProbeFailed(out) ==
    \/ ~out.success
    \/ ~out.json
    \/ out.streams \in {"missing", "empty"}
    \/ ~out.hasWidth \/ ~out.hasHeight
    \/ ~out.hasFormat
    \/ out.duration.tag \in {"nokey", "missing", "invalid"}
    \/ out.rate.tag \in {"missing", "invalid"}
    \/ (out.rate.tag = "frac" /\ out.rate.den = 0)

C5_RateAndDurationTargets ==
    \A c \in Convs :
      LET r == conv[c]
      IN r.encode_calls > 0 =>
           /\ r.target_fps = IF r.fps[1] > 30 * r.fps[2] THEN 30
                             ELSE RoundHalfAway(r.fps[1], r.fps[2])
           /\ r.target_duration = Min(r.duration, 3000)
           /\ r.target_fps <= 30
           /\ r.target_duration <= 3000

\* C6: when a conversion ends, on every exit path, neither its input temporary
\* file nor its output temporary file still exists.
C6_NoTempFileLeft ==
    \A c \in Convs :
      conv[c].pc = "done" => ~conv[c].input_temp /\ ~conv[c].output_temp

\* a conversion that created both files ended in TooLarge and then failed to
\* deliver the failure report
C6_Witness ==
    \E c \in Convs :
      /\ conv[c].pc = "done" /\ conv[c].outcome = "TooLarge"
      /\ conv[c].ret = "Err"

\* C7: a probe or encode process that never exits blocks only the conversion
\* that started it: every other unfinished conversion can run, now or once a
\* worker thread held by a process that does exit is released, however many
\* external processes hang.
C7_HangBlocksOnlyItsOwnConversion ==
    \A c \in Convs :
      (conv[c].pc # "done" /\ ~conv[c].hung) =>
         \/ CanRun(c)
         \/ \E d \in Convs : OnWorker(d) /\ ~conv[d].hung

StageOrders ==
    {<<"Classify">>, <<"Classify", "UnsupportedType">>,
     <<"Classify", "ImageTranscode">>, <<"Classify", "Probe">>,
     <<"Classify", "Probe", "VideoTranscode">>}

\* C8: a conversion that reaches classification passes the stages in the order
\* Classify -> (ImageTranscode | Probe -> VideoTranscode | UnsupportedType),
\* none twice, and ends with exactly one terminal result: one sticker delivery
\* or one failure report, never both and never none.
C8_OneTerminalResult ==
    \A c \in Convs :
      LET r == conv[c]
      IN Classified(r) =>
           /\ r.stages \in StageOrders
           /\ r.stickers + r.reports <= 1
           /\ r.pc = "done" => r.stickers + r.reports = 1

\* C9: for every width > 0 and height > 0 both target dimensions are at least
\* 1 when the image resize or the video encode tool is invoked.
C9_TargetAtLeastOne ==
    \A c \in Convs :
      LET r == conv[c]
      IN (Derived(r) /\ r.width > 0 /\ r.height > 0) =>
           r.new_width >= 1 /\ r.new_height >= 1

\* C10: whenever the video encode tool is invoked, the probed width, height,
\* frame rate and duration are all strictly positive.
C10_EncodeOnlyOnPositiveProbe ==
    \A c \in Convs :
      LET r == conv[c]
      IN r.encode_calls > 0 =>
           /\ r.width > 0 /\ r.height > 0
           /\ r.fps[1] > 0
           /\ r.duration > 0

====
